---- MODULE Spec2Model ----
(***************************************************************************)
(* A model of climate-leocap:                                              *)
(*   SEP.py              the SEP 5 scenario module (species, interactions, *)
(*                       the high-sustainability variant)                  *)
(*   reformat_density.py the density-table build                           *)
(*   report_plots.py     output extraction, aggregation, density grid      *)
(* Each program is a specification of its own (SpecSEP, SpecDensity,       *)
(* SpecExtract, SpecGrid) over the variables of its group; the variables   *)
(* of the other groups stay at their initial values.                       *)
(***************************************************************************)
EXTENDS Integers, Sequences, FiniteSets, TLC

VARIABLES
    \* ---- SEP.py: module state while the module body runs ----
    sep_pc,              \* position in the module body
    sep_k,               \* the next assignment of lines 386-391 to run
    heap,                \* Species objects by identity: the mutable fields
    sep5_species,        \* dict: species name -> object identity
    sep5h_species,       \* dict: species name -> object identity
    interactions,        \* list of Interaction records
    sep5h_interactions,  \* list of Interaction records
    probe,               \* the last value a consumer read from a scenario
    \* ---- reformat_density.py: main(ssp, path) ----
    rd_pc,               \* position in main
    ssp,                 \* the pathway index argument
    year_rs,             \* data[11]: time ordinates (decimal years, in ticks)
    alt_rs,              \* data[10]: altitude ordinates (km)
    sspdata,             \* index into data of the selected density matrix
    str_alts,            \* altitude labels
    str_years,           \* period labels computed so far
    rd_i,                \* loop index of the loop being run
    tojson,              \* the table: period label -> altitude label -> value
    out_file,            \* what was written to path
    rd_stdout,           \* lines printed
    \* ---- report_plots.py: extract_species_data, plot_species_heatmap ----
    ex_pc,               \* position in main
    species_names,       \* scenario_props.species_names
    n_shells,            \* scenario_props.n_shells
    out_t,               \* scenario_props.output.t
    out_y,               \* scenario_props.output.y
    prefix,              \* the selector of the last extract_species_data call
    species_indices,     \* 1st value returned (positions count from 0)
    sel_names,           \* 2nd value returned
    species_data,        \* 3rd value returned
    total_objects,       \* the total of the plot_species_heatmap call made
                         \* on the last extracted data (<<>>: none yet)
    \* ---- report_plots.py: calculate_time_dependent_density ----
    gr_pc,               \* position in the function
    has_density_model,   \* hasattr(scenario_props, 'density_model')
    model_name,          \* scenario_props.density_model.__name__
    has_density_data,    \* hasattr(scenario_props, 'density_data')
    raise_at,            \* the timestep (from 1) the model raises at, 0: never
    R0_km,               \* scenario_props.R0_km: shell altitudes
    timestamps,          \* scenario_props.output.t
    density_values,      \* the grid, [shell][timestep]
    gr_i,                \* loop index (from 1)
    gr_log               \* lines printed

sepVars == <<sep_pc, sep_k, heap, sep5_species, sep5h_species, interactions,
             sep5h_interactions, probe>>

densVars == <<rd_pc, ssp, year_rs, alt_rs, sspdata, str_alts, str_years, rd_i,
              tojson, out_file, rd_stdout>>

extVars == <<ex_pc, species_names, n_shells, out_t, out_y, prefix,
             species_indices, sel_names, species_data, total_objects>>

gridVars == <<gr_pc, has_density_model, model_name, has_density_data, raise_at,
              R0_km, timestamps, density_values, gr_i, gr_log>>

vars == <<sepVars, densVars, extVars, gridVars>>

(***************************************************************************)
(* Generic helpers                                                         *)
(***************************************************************************)
Range(s) == {s[i] : i \in DOMAIN s}

Min(a, b) == IF a <= b THEN a ELSE b

\* a Python dict as a function; d[k] = v inserts or overwrites
EmptyDict == [x \in {} |-> 0]

DictSet(d, k, v) == [x \in (DOMAIN d) \cup {k} |-> IF x = k THEN v ELSE d[x]]

(***************************************************************************)
(* SEP.py                                                                  *)
(* Probabilities held in Species fields are in thousandths (0.98 is 980,    *)
(* 0.015 is 15). A rate returned by a probability_fn is an exact fraction  *)
(* <<numerator, denominator>>. Masses are in grams and areas in square     *)
(* centimetres, so that 0.001 kg and 0.0001 m^2 are whole numbers. A time  *)
(* is a whole number of steps of a quarter of a year.                      *)
(***************************************************************************)
\* explosion_probability was not passed to the constructor
NotGiven == 0 - 1

\* the Species objects, named by the module variable that holds them
SpeciesObjects ==
    {"commercial_constellation", "commercial_other", "gov_civil", "military",
     "small_satellites", "rocket_bodies_commercial", "rocket_bodies_gov",
     "inactive_commercial", "inactive_government", "large_debris",
     "medium_debris", "small_debris"}

MkSpecies(n, pmd, pmdt, expl) ==
    [name |-> n, pmd_success_rate |-> pmd, pmd_time |-> pmdt,
     explosion_probability |-> expl]

\* the heap after lines 28-262: one object per Species(...) call
InitialHeap ==
    [o \in SpeciesObjects |->
        CASE o = "commercial_constellation" ->
                MkSpecies("commercial_constellation_sats", 980, 5, NotGiven)
          [] o = "commercial_other" ->
                MkSpecies("commercial_other_sats", 950, 5, NotGiven)
          [] o = "gov_civil" ->
                MkSpecies("gov_civil_sats", 900, 5, NotGiven)
          [] o = "military" ->
                MkSpecies("military_sats", 900, 5, NotGiven)
          [] o = "small_satellites" ->
                MkSpecies("small_sats", 980, 5, NotGiven)
          [] o = "rocket_bodies_commercial" ->
                MkSpecies("rocket_bodies_commercial", 900, 5, 15)
          [] o = "rocket_bodies_gov" ->
                MkSpecies("rocket_bodies_gov", 900, 5, 15)
          [] o = "inactive_commercial" ->
                MkSpecies("inactive_commercial_sats", 0, 25, 2)
          [] o = "inactive_government" ->
                MkSpecies("inactive_government_sats", 0, 25, 2)
          [] o = "large_debris" ->
                MkSpecies("large_debris", 0, 25, NotGiven)
          [] o = "medium_debris" ->
                MkSpecies("medium_debris", 0, 25, NotGiven)
          [] o = "small_debris" ->
                MkSpecies("small_debris", 0, 25, NotGiven)]

\* lifetime_fn of each Species object (an immutable lambda), in years
LifetimeFn(o, alt) ==
    CASE o = "commercial_constellation" -> IF alt < 600 THEN 7 ELSE 8
      [] o = "commercial_other" ->
            IF alt < 800 THEN 8 ELSE IF alt < 1200 THEN 10 ELSE 12
      [] o = "gov_civil" -> IF alt < 700 THEN 7 ELSE 10
      [] o = "military" -> IF alt < 1000 THEN 10 ELSE 15
      [] o = "small_satellites" ->
            IF alt < 500 THEN 3 ELSE IF alt < 700 THEN 5 ELSE 7
      [] o = "rocket_bodies_commercial" ->
            IF alt < 400 THEN 2 ELSE IF alt < 600 THEN 10 ELSE 20
      [] o = "rocket_bodies_gov" ->
            IF alt < 400 THEN 2 ELSE IF alt < 600 THEN 10 ELSE 25
      [] o = "inactive_commercial" ->
            IF alt < 500 THEN 10 ELSE IF alt < 800 THEN 25 ELSE 100
      [] o = "inactive_government" ->
            IF alt < 700 THEN 15 ELSE IF alt < 1000 THEN 30 ELSE 100
      [] o = "large_debris" ->
            IF alt < 500 THEN 5 ELSE IF alt < 800 THEN 25 ELSE 100
      [] o = "medium_debris" ->
            IF alt < 500 THEN 3 ELSE IF alt < 800 THEN 15 ELSE 50
      [] o = "small_debris" ->
            IF alt < 500 THEN 1 ELSE IF alt < 800 THEN 5 ELSE 25

\* mass_fn of each Species object, in grams
MassFn(o, alt) ==
    CASE o = "commercial_constellation" ->
            IF alt < 600 THEN 300000 ELSE 500000
      [] o = "commercial_other" -> IF alt < 800 THEN 1000000 ELSE 2000000
      [] o = "gov_civil" -> IF alt < 700 THEN 2000000 ELSE 3500000
      [] o = "military" -> IF alt < 1000 THEN 2500000 ELSE 4000000
      [] o = "small_satellites" -> 10000
      [] o = "rocket_bodies_commercial" ->
            IF alt < 500 THEN 2000000 ELSE 3000000
      [] o = "rocket_bodies_gov" -> 3000000
      [] o = "inactive_commercial" ->
            IF alt < 600 THEN 300000
            ELSE IF alt < 800 THEN 1000000 ELSE 2000000
      [] o = "inactive_government" ->
            IF alt < 1000 THEN 2000000 ELSE 3500000
      [] o = "large_debris" -> 5000
      [] o = "medium_debris" -> 500
      [] o = "small_debris" -> 1

\* area_fn of each Species object, in square centimetres
AreaFn(o, alt) ==
    CASE o = "commercial_constellation" -> IF alt < 600 THEN 40000 ELSE 60000
      [] o = "commercial_other" -> IF alt < 800 THEN 150000 ELSE 250000
      [] o = "gov_civil" -> IF alt < 700 THEN 250000 ELSE 400000
      [] o = "military" -> IF alt < 1000 THEN 300000 ELSE 450000
      [] o = "small_satellites" -> 1000
      [] o = "rocket_bodies_commercial" -> 300000
      [] o = "rocket_bodies_gov" -> 350000
      [] o = "inactive_commercial" ->
            IF alt < 600 THEN 40000
            ELSE IF alt < 800 THEN 150000 ELSE 250000
      [] o = "inactive_government" ->
            IF alt < 1000 THEN 250000 ELSE 400000
      [] o = "large_debris" -> 1000
      [] o = "medium_debris" -> 100
      [] o = "small_debris" -> 1

\* InitialNumberFn with the final else of each cascade left out: nothing is
\* returned for an altitude no window holds
InitialNumberFnNoElse(o, alt) ==
    CASE o = "commercial_constellation" ->
            IF 500 <= alt /\ alt < 600 THEN 6000 ELSE NotGiven
      [] OTHER -> IF alt < 1500 THEN 0 ELSE NotGiven

\* initial_number_fn of each Species object
InitialNumberFn(o, alt) ==
    CASE o = "commercial_constellation" ->
            IF 500 <= alt /\ alt < 600 THEN 6000 ELSE 0
      [] o = "commercial_other" ->
            IF 600 <= alt /\ alt < 800 THEN 50
            ELSE IF 800 <= alt /\ alt < 1200 THEN 30 ELSE 0
      [] o = "gov_civil" ->
            IF 600 <= alt /\ alt < 700 THEN 5
            ELSE IF 700 <= alt /\ alt < 1000 THEN 15 ELSE 0
      [] o = "military" -> IF 800 <= alt /\ alt < 1200 THEN 10 ELSE 0
      [] o = "small_satellites" ->
            IF 400 <= alt /\ alt < 600 THEN 300
            ELSE IF 600 <= alt /\ alt < 800 THEN 100 ELSE 0
      [] o = "rocket_bodies_commercial" ->
            IF 200 <= alt /\ alt < 300 THEN 30
            ELSE IF 300 <= alt /\ alt < 500 THEN 20
            ELSE IF 500 <= alt /\ alt < 700 THEN 10 ELSE 0
      [] o = "rocket_bodies_gov" ->
            IF 300 <= alt /\ alt < 500 THEN 10
            ELSE IF 500 <= alt /\ alt < 700 THEN 5 ELSE 0
      [] o = "inactive_commercial" ->
            IF 500 <= alt /\ alt < 800 THEN 100
            ELSE IF 800 <= alt /\ alt < 1200 THEN 50 ELSE 0
      [] o = "inactive_government" ->
            IF 700 <= alt /\ alt < 1000 THEN 20
            ELSE IF 1000 <= alt /\ alt < 1500 THEN 10 ELSE 0
      [] o = "large_debris" ->
            IF 500 <= alt /\ alt < 800 THEN 3000
            ELSE IF 800 <= alt /\ alt < 1200 THEN 2000
            ELSE IF 1200 <= alt /\ alt < 1500 THEN 1000 ELSE 0
      [] o = "medium_debris" ->
            IF 500 <= alt /\ alt < 800 THEN 20000
            ELSE IF 800 <= alt /\ alt < 1200 THEN 15000
            ELSE IF 1200 <= alt /\ alt < 1500 THEN 5000 ELSE 0
      [] o = "small_debris" ->
            IF 500 <= alt /\ alt < 800 THEN 500000
            ELSE IF 800 <= alt /\ alt < 1200 THEN 300000
            ELSE IF 1200 <= alt /\ alt < 1500 THEN 100000 ELSE 0

PropertyFns == {"mass_fn", "area_fn", "initial_number_fn"}

\* species.<fn>(alt) for one of the three functions above
PropertyFn(fn, o, alt) ==
    IF fn = "mass_fn" THEN MassFn(o, alt)
    ELSE IF fn = "area_fn" THEN AreaFn(o, alt)
    ELSE InitialNumberFn(o, alt)

\* an exact fraction and its arithmetic
Rat(n, d) == <<n, d>>

RatEq(a, b) == a[1] * b[2] = b[1] * a[2]

RatAdd(a, b) == Rat(a[1] * b[2] + b[1] * a[2], a[2] * b[2])

RatMul(a, b) == Rat(a[1] * b[1], a[2] * b[2])

\* time_step = 0.25: steps to the year
StepsPerYear == 4

\* ProductFn with the altitude 600 on the low side of each threshold
ProductFnInclusive(fn, alt) ==
    CASE fn = 278 -> IF alt <= 600 THEN 100 ELSE 150
      [] fn = 279 -> IF alt <= 600 THEN 500 ELSE 800
      [] fn = 280 -> IF alt <= 600 THEN 10000 ELSE 15000
      [] OTHER -> 1

\* a value of a products mapping: the lambda, named by the source line that
\* writes it, applied to an altitude
ProductFn(fn, alt) ==
    CASE fn = 278 -> IF alt < 600 THEN 100 ELSE 150
      [] fn = 279 -> IF alt < 600 THEN 500 ELSE 800
      [] fn = 280 -> IF alt < 600 THEN 10000 ELSE 15000
      [] fn = 291 -> 200
      [] fn = 292 -> 1000
      [] fn = 293 -> 20000
      [] fn = 304 -> 50
      [] fn = 305 -> 300
      [] fn = 306 -> 5000
      [] fn = 307 -> 1
      [] fn = 318 -> 50
      [] fn = 319 -> 200
      [] fn = 320 -> 5000
      [] fn = 331 -> 1
      [] fn = 351 -> 1

\* ProbabilityFn with the removal rules starting after, not at, year 5
ProbabilityFnLate(fn, t, alt) ==
    CASE fn = 360 -> IF t > 5 * StepsPerYear THEN Rat(10, 2000) ELSE Rat(0, 1)
      [] fn = 400 -> IF t > 5 * StepsPerYear THEN Rat(15, 2000) ELSE Rat(0, 1)
      [] OTHER -> Rat(0, 1)

\* probability_fn(t, alt): the lambda, named by the source line that writes
\* it, applied to a time (in steps) and an altitude
ProbabilityFn(fn, t, alt) ==
    CASE fn = 276 -> IF alt > 400 THEN Rat(1, 100000) ELSE Rat(0, 1)
      [] fn = 289 -> IF alt > 400 THEN Rat(5, 100000) ELSE Rat(0, 1)
      [] fn = 302 -> IF alt > 400 THEN Rat(1, 10000) ELSE Rat(0, 1)
      [] fn = 316 -> IF alt > 300 THEN Rat(15, 1000) ELSE Rat(0, 1)
      [] fn = 329 -> Rat(2, 100)
      [] fn = 340 -> RatMul(Rat(1, 7), Rat(98, 100))
      [] fn = 349 -> RatMul(Rat(1, 7), Rat(2, 100))
      [] fn = 360 -> IF t >= 5 * StepsPerYear THEN Rat(10, 2000) ELSE Rat(0, 1)
      [] fn = 400 -> IF t >= 5 * StepsPerYear THEN Rat(15, 2000) ELSE Rat(0, 1)

\* probability_fn: the lambda, named by the source line that writes it;
\* products: key -> the lambda, named by the source line that writes it
MkInteraction(a, b, ty, fn, prods) ==
    [species_a |-> a, species_b |-> b, interaction_type |-> ty,
     probability_fn |-> fn, products |-> prods]

\* the list literal of lines 269-363
InteractionsLiteral ==
    << MkInteraction("commercial_constellation_sats",
                     "commercial_constellation_sats", "collision", 276,
                     [large_debris |-> 278, medium_debris |-> 279,
                      small_debris |-> 280]),
       MkInteraction("commercial_constellation_sats",
                     "commercial_other_sats", "collision", 289,
                     [large_debris |-> 291, medium_debris |-> 292,
                      small_debris |-> 293]),
       MkInteraction("commercial_constellation_sats", "large_debris",
                     "collision", 302,
                     [large_debris |-> 304, medium_debris |-> 305,
                      small_debris |-> 306, inactive_commercial_sats |-> 307]),
       MkInteraction("rocket_bodies_commercial", "None", "explosion", 316,
                     [large_debris |-> 318, medium_debris |-> 319,
                      small_debris |-> 320]),
       MkInteraction("commercial_constellation_sats", "None", "failure", 329,
                     [inactive_commercial_sats |-> 331]),
       MkInteraction("commercial_constellation_sats", "None", "eol_success", 340,
                     EmptyDict),
       MkInteraction("commercial_constellation_sats", "None", "eol_failure", 349,
                     [inactive_commercial_sats |-> 351]),
       MkInteraction("inactive_commercial_sats", "None", "removal", 360,
                     EmptyDict) >>

\* the Interaction appended at lines 395-403
VariantRemoval ==
    MkInteraction("inactive_commercial_sats", "None", "removal", 400, EmptyDict)

\* SpeciesLiteral without the entry for small_debris
SpeciesLiteralNoSmallDebris ==
    [n \in {"commercial_constellation_sats", "commercial_other_sats",
            "gov_civil_sats", "military_sats", "small_sats",
            "rocket_bodies_commercial", "rocket_bodies_gov",
            "inactive_commercial_sats", "inactive_government_sats",
            "large_debris", "medium_debris"} |->
        CASE n = "commercial_constellation_sats" -> "commercial_constellation"
          [] n = "commercial_other_sats" -> "commercial_other"
          [] n = "gov_civil_sats" -> "gov_civil"
          [] n = "military_sats" -> "military"
          [] n = "small_sats" -> "small_satellites"
          [] n = "rocket_bodies_commercial" -> "rocket_bodies_commercial"
          [] n = "rocket_bodies_gov" -> "rocket_bodies_gov"
          [] n = "inactive_commercial_sats" -> "inactive_commercial"
          [] n = "inactive_government_sats" -> "inactive_government"
          [] n = "large_debris" -> "large_debris"
          [] n = "medium_debris" -> "medium_debris"]

\* the dict literal of lines 366-379: key -> the object bound to the variable
SpeciesLiteral ==
    [n \in {"commercial_constellation_sats", "commercial_other_sats",
            "gov_civil_sats", "military_sats", "small_sats",
            "rocket_bodies_commercial", "rocket_bodies_gov",
            "inactive_commercial_sats", "inactive_government_sats",
            "large_debris", "medium_debris", "small_debris"} |->
        CASE n = "commercial_constellation_sats" -> "commercial_constellation"
          [] n = "commercial_other_sats" -> "commercial_other"
          [] n = "gov_civil_sats" -> "gov_civil"
          [] n = "military_sats" -> "military"
          [] n = "small_sats" -> "small_satellites"
          [] n = "rocket_bodies_commercial" -> "rocket_bodies_commercial"
          [] n = "rocket_bodies_gov" -> "rocket_bodies_gov"
          [] n = "inactive_commercial_sats" -> "inactive_commercial"
          [] n = "inactive_government_sats" -> "inactive_government"
          [] n = "large_debris" -> "large_debris"
          [] n = "medium_debris" -> "medium_debris"
          [] n = "small_debris" -> "small_debris"]

\* the six assignments of lines 386-391, in order: <<key, field, value>>
Overrides ==
    << <<"commercial_constellation_sats", "pmd_success_rate", 990>>,
       <<"commercial_other_sats", "pmd_success_rate", 990>>,
       <<"gov_civil_sats", "pmd_success_rate", 950>>,
       <<"military_sats", "pmd_success_rate", 950>>,
       <<"rocket_bodies_commercial", "explosion_probability", 10>>,
       <<"rocket_bodies_commercial", "pmd_success_rate", 980>> >>

\* obj.field = value on the object a mapping entry refers to
SetField(h, o, f, v) ==
    IF f = "pmd_success_rate"
    THEN [h EXCEPT ![o].pmd_success_rate = v]
    ELSE [h EXCEPT ![o].explosion_probability = v]

GetField(h, o, f) ==
    IF f = "pmd_success_rate" THEN h[o].pmd_success_rate
    ELSE IF f = "explosion_probability" THEN h[o].explosion_probability
    ELSE h[o].pmd_time

\* dict.copy(): a new container holding the same object references
DictCopy(d) == [k \in DOMAIN d |-> d[k]]

\* list.copy(): a new list holding the same elements
ListCopy(l) == [i \in 1..Len(l) |-> l[i]]

\* the module body of SEP.py touches nothing of the other programs
SepFrame == UNCHANGED <<densVars, extVars, gridVars>>

SepInit ==
    /\ sep_pc = "species_defined"
    /\ sep_k = 1
    /\ heap = InitialHeap
    /\ sep5_species = EmptyDict
    /\ sep5h_species = EmptyDict
    /\ interactions = <<>>
    /\ sep5h_interactions = <<>>
    /\ probe = <<>>

\* before SEP.py is imported: no object exists
SepIdle ==
    /\ sep_pc = "idle"
    /\ sep_k = 1
    /\ heap = EmptyDict
    /\ sep5_species = EmptyDict
    /\ sep5h_species = EmptyDict
    /\ interactions = <<>>
    /\ sep5h_interactions = <<>>
    /\ probe = <<>>

\* lines 269-363
DefineInteractions ==
    /\ SepFrame
    /\ sep_pc = "species_defined"
    /\ interactions' = InteractionsLiteral
    /\ sep_pc' = "interactions_defined"
    /\ UNCHANGED <<sep_k, heap, sep5_species, sep5h_species, sep5h_interactions, probe>>

\* lines 366-379
ExportSpecies ==
    /\ SepFrame
    /\ sep_pc = "interactions_defined"
    /\ sep5_species' = SpeciesLiteral
    /\ sep_pc' = "exported"
    /\ UNCHANGED <<sep_k, heap, sep5h_species, interactions, sep5h_interactions, probe>>

\* line 383
CopySpecies ==
    /\ SepFrame
    /\ sep_pc = "exported"
    /\ sep5h_species' = DictCopy(sep5_species)
    /\ sep_pc' = "override"
    /\ UNCHANGED <<sep_k, heap, sep5_species, interactions, sep5h_interactions, probe>>

\* lines 386-391, one assignment per step
OverrideField ==
    /\ SepFrame
    /\ sep_pc = "override"
    /\ LET ov == Overrides[sep_k]
       IN heap' = SetField(heap, sep5h_species[ov[1]], ov[2], ov[3])
    /\ sep_k' = sep_k + 1
    /\ sep_pc' = IF sep_k < Len(Overrides) THEN "override" ELSE "overridden"
    /\ UNCHANGED <<sep5_species, sep5h_species, interactions,
                   sep5h_interactions, probe>>

\* line 394
CopyInteractions ==
    /\ SepFrame
    /\ sep_pc = "overridden"
    /\ sep5h_interactions' = ListCopy(interactions)
    /\ sep_pc' = "interactions_copied"
    /\ UNCHANGED <<sep_k, heap, sep5_species, sep5h_species, interactions, probe>>

\* AppendRemoval on a variant list that is the base list itself, not a copy
AppendRemovalShared ==
    /\ SepFrame
    /\ sep_pc = "interactions_copied"
    /\ sep5h_interactions' = Append(sep5h_interactions, VariantRemoval)
    /\ interactions' = Append(interactions, VariantRemoval)
    /\ sep_pc' = "done"
    /\ UNCHANGED <<sep_k, heap, sep5_species, sep5h_species, probe>>

\* lines 395-403
AppendRemoval ==
    /\ SepFrame
    /\ sep_pc = "interactions_copied"
    /\ sep5h_interactions' = Append(sep5h_interactions, VariantRemoval)
    /\ sep_pc' = "done"
    /\ UNCHANGED <<sep_k, heap, sep5_species, sep5h_species, interactions, probe>>

Scenarios == {"sep5", "sep5h"}

ProbeFields == {"pmd_success_rate", "explosion_probability", "pmd_time"}

\* altitudes (km) a consumer evaluates the property functions at
AltSamples == {100, 200, 250, 300, 399, 400, 500, 550, 599, 600, 650, 700,
               800, 1000, 1200, 1500, 2000}

\* times (in steps) a consumer evaluates a probability_fn at: 0, 4.75, 5,
\* 5.25 and 10 years
TimeSamples == {0, 19, 20, 21, 40}

ScenarioInteractions(s) ==
    IF s = "sep5" THEN interactions ELSE sep5h_interactions

ScenarioSpecies(s) == IF s = "sep5" THEN sep5_species ELSE sep5h_species

\* lines 410-425: a consumer of the loaded module reads a field, or evaluates
\* lifetime_fn, of a species of one of the two scenarios. A read changes
\* nothing of the module, so the first read of a run stands for every read.
ReadField ==
    /\ SepFrame
    /\ sep_pc = "done"
    /\ probe = <<>>
    /\ \E s \in Scenarios, n \in DOMAIN sep5_species, f \in ProbeFields :
          probe' = <<s, n, f, GetField(heap, ScenarioSpecies(s)[n], f)>>
    /\ UNCHANGED <<sep_pc, sep_k, heap, sep5_species, sep5h_species, interactions,
                   sep5h_interactions>>

EvalLifetime ==
    /\ SepFrame
    /\ sep_pc = "done"
    /\ probe = <<>>
    /\ \E s \in Scenarios, n \in DOMAIN sep5_species, alt \in AltSamples :
          probe' = <<s, n, "lifetime_fn", alt,
                     LifetimeFn(ScenarioSpecies(s)[n], alt)>>
    /\ UNCHANGED <<sep_pc, sep_k, heap, sep5_species, sep5h_species, interactions,
                   sep5h_interactions>>

\* a consumer evaluates mass_fn, area_fn or initial_number_fn of a species
EvalProperty ==
    /\ SepFrame
    /\ sep_pc = "done"
    /\ probe = <<>>
    /\ \E s \in Scenarios, n \in DOMAIN sep5_species, fn \in PropertyFns,
          alt \in AltSamples :
          probe' = <<s, n, fn, alt, PropertyFn(fn, ScenarioSpecies(s)[n], alt)>>
    /\ UNCHANGED <<sep_pc, sep_k, heap, sep5_species, sep5h_species, interactions,
                   sep5h_interactions>>

\* a consumer evaluates one entry of the products of an Interaction
EvalProduct ==
    /\ SepFrame
    /\ sep_pc = "done"
    /\ probe = <<>>
    /\ \E s \in Scenarios, alt \in AltSamples :
          \E k \in DOMAIN ScenarioInteractions(s) :
             \E key \in DOMAIN ScenarioInteractions(s)[k].products :
                probe' = <<"products", s, k, key, alt,
                           ProductFn(ScenarioInteractions(s)[k].products[key],
                                     alt)>>
    /\ UNCHANGED <<sep_pc, sep_k, heap, sep5_species, sep5h_species, interactions,
                   sep5h_interactions>>

\* a consumer evaluates the probability_fn of an Interaction
EvalProbability ==
    /\ SepFrame
    /\ sep_pc = "done"
    /\ probe = <<>>
    /\ \E s \in Scenarios, t \in TimeSamples, alt \in AltSamples :
          \E k \in DOMAIN ScenarioInteractions(s) :
             LET x == ScenarioInteractions(s)[k]
             IN probe' = <<"probability_fn", s, k, x.interaction_type, t, alt,
                           ProbabilityFn(x.probability_fn, t, alt)>>
    /\ UNCHANGED <<sep_pc, sep_k, heap, sep5_species, sep5h_species, interactions,
                   sep5h_interactions>>

SepStep ==
    \/ DefineInteractions
    \/ ExportSpecies
    \/ CopySpecies
    \/ OverrideField
    \/ CopyInteractions
    \/ AppendRemoval
    \/ ReadField
    \/ EvalLifetime
    \/ EvalProperty
    \/ EvalProduct
    \/ EvalProbability

(***************************************************************************)
(* reformat_density.py                                                     *)
(* data[11] holds binary floating-point numbers: a decimal year between    *)
(* 1024 and 2048 is a whole number of steps of 2^-42 year, and for such a  *)
(* number frac - floor(frac) and its product by 12 are computed without    *)
(* rounding error. A decimal year is held here as a whole number of ticks, *)
(* a power of two of them to the year, with exact arithmetic: every        *)
(* ordinate of the model is a float the program can be given (2020.125 is  *)
(* 2020 years and 512 ticks; 2020 + 2.5/12 is no float and no number of    *)
(* ticks), and lines 45-46 compute on it what the model computes.          *)
(* A density value is held as the place it was read from, <<k, i, j>> for  *)
(* data[k][i, j], so two values are equal only when they are the same cell *)
(* of the same matrix.                                                     *)
(***************************************************************************)
TicksPerYear == 2 ^ 12

MaxTimes == 2

MaxAlts == 2

\* the pathway indices main is called with (6 and 7 are not pathways)
SspInputs == {0, 1, 2, 3, 4, 5, 6, 7}

YearInputs == {2020, 2021}

\* fractions of a year, in ticks: 0, 0.01, the first tick after 1/12, 0.125
\* (1.5/12, halfway between two month divisions), the last tick before and
\* the first tick after 2.5/12, 0.5, the first tick after 11/12, 0.96, 0.999
FracInputs == {0, 41, 342, 512, 853, 854, 2048, 3755, 3932, 4092}

TimeInputs == {y * TicksPerYear + f : y \in YearInputs, f \in FracInputs}

AltInputs == {550, 600, 650}

\* the strictly increasing sequences over S of length 1..n (an ordinate axis)
Increasing(S, n) ==
    UNION {{s \in [1..k -> S] : \A a, b \in 1..k : a < b => s[a] < s[b]}
           : k \in 1..n}

NoneVal == <<"None">>

DigitChar(d) ==
    CASE d = 0 -> "0" [] d = 1 -> "1" [] d = 2 -> "2" [] d = 3 -> "3"
      [] d = 4 -> "4" [] d = 5 -> "5" [] d = 6 -> "6" [] d = 7 -> "7"
      [] d = 8 -> "8" [] d = 9 -> "9"

\* str(n) for an integer n >= 0, as a sequence of characters
RECURSIVE IntToStr(_)
IntToStr(n) ==
    IF n < 10 THEN <<DigitChar(n)>>
    ELSE IntToStr(n \div 10) \o <<DigitChar(n % 10)>>

\* the width part of a format spec: pad on the left up to width w
RECURSIVE PadLeft(_, _, _)
PadLeft(s, w, c) == IF Len(s) >= w THEN s ELSE PadLeft(<<c>> \o s, w, c)

\* np.round of num/den (num >= 0, den > 0): to nearest, halves to even
RoundHalfEven(num, den) ==
    LET q == num \div den
        r == num % den
    IN IF 2 * r < den THEN q
       ELSE IF 2 * r > den THEN q + 1
       ELSE IF q % 2 = 0 THEN q ELSE q + 1

\* line 45: year = np.floor(frac)
YearOf(frac) == frac \div TicksPerYear

\* MonthOf counting sixths of a year, not twelfths
MonthOfSixths(frac) ==
    RoundHalfEven((frac - YearOf(frac) * TicksPerYear) * 6, TicksPerYear) + 1

\* line 46: mo = np.round((frac - year) * 12) + 1
MonthOf(frac) ==
    RoundHalfEven((frac - YearOf(frac) * TicksPerYear) * 12, TicksPerYear) + 1

\* a '<U10' array element keeps at most 10 characters
UMax == 10

\* line 47: str_years[i] = f'{year:4.0f}-{mo:02.0f}'
PeriodLabel(frac) ==
    LET full == PadLeft(IntToStr(YearOf(frac)), 4, " ") \o <<"-">>
                \o PadLeft(IntToStr(MonthOf(frac)), 2, "0")
    IN SubSeq(full, 1, Min(UMax, Len(full)))

\* line 41: data[10].astype(str), one element
AltLabel(alt) == IntToStr(alt)

\* SelectData taking data[p] for every pathway 1..5
SelectDataInOrder(p) ==
    CASE p = 0 -> 9
      [] p \in 1..5 -> p
      [] OTHER -> 0 - 1

\* lines 23-38: the match statement; 0 - 1 is the default case
SelectData(p) ==
    CASE p = 0 -> 9
      [] p = 1 -> 1
      [] p = 2 -> 2
      [] p = 3 -> 3
      [] p = 4 -> 6
      [] p = 5 -> 8
      [] OTHER -> 0 - 1

\* data[k][i, j]
Dens(k, i, j) == <<k, i, j>>

\* RowOf reading row 0 of the matrix whatever the loop index
RowOfFirst(k, i, n) == [j \in 1..n |-> Dens(k, 1, j)]

\* line 53: sspdata[i, :]
RowOf(k, i, n) == [j \in 1..n |-> Dens(k, i, j)]

\* dict(zip(keys, vals)): pairs in order, a later pair overwrites an earlier
RECURSIVE ZipDict(_, _, _)
ZipDict(keys, vals, n) ==
    IF n = 0 THEN EmptyDict
    ELSE DictSet(ZipDict(keys, vals, n - 1), keys[n], vals[n])

\* dict.fromkeys(keys): every distinct key, each with the value None
FromKeysDict(keys) == [k \in Range(keys) |-> NoneVal]

DensInit ==
    /\ rd_pc = "match"
    /\ ssp \in SspInputs
    /\ year_rs \in Increasing(TimeInputs, MaxTimes)
    /\ alt_rs \in Increasing(AltInputs, MaxAlts)
    /\ sspdata = 0 - 1
    /\ str_alts = <<>>
    /\ str_years = <<>>
    /\ rd_i = 1
    /\ tojson = EmptyDict
    /\ out_file = NoneVal
    /\ rd_stdout = <<>>

\* the state of main's variables before main is called
DensIdle ==
    /\ rd_pc = "idle"
    /\ ssp = 0
    /\ year_rs = <<>>
    /\ alt_rs = <<>>
    /\ sspdata = 0 - 1
    /\ str_alts = <<>>
    /\ str_years = <<>>
    /\ rd_i = 1
    /\ tojson = EmptyDict
    /\ out_file = NoneVal
    /\ rd_stdout = <<>>

DensFrame == UNCHANGED <<sepVars, extVars, gridVars>>

\* lines 23-35: a pathway index the match knows
SelectPathway ==
    /\ DensFrame
    /\ rd_pc = "match"
    /\ SelectData(ssp) >= 0
    /\ sspdata' = SelectData(ssp)
    /\ rd_pc' = "alts"
    /\ UNCHANGED <<ssp, year_rs, alt_rs, str_alts, str_years, rd_i, tojson,
                   out_file, rd_stdout>>

\* lines 36-38: case _ prints and exits
InvalidPathway ==
    /\ DensFrame
    /\ rd_pc = "match"
    /\ SelectData(ssp) < 0
    /\ rd_stdout' = Append(rd_stdout, "Invalid SSP. Choose 1-5.")
    /\ rd_pc' = "exited"
    /\ UNCHANGED <<ssp, year_rs, alt_rs, sspdata, str_alts, str_years, rd_i,
                   tojson, out_file>>

\* lines 41-43
AltLabels ==
    /\ DensFrame
    /\ rd_pc = "alts"
    /\ str_alts' = [j \in 1..Len(alt_rs) |-> AltLabel(alt_rs[j])]
    /\ rd_i' = 1
    /\ rd_pc' = "years"
    /\ UNCHANGED <<ssp, year_rs, alt_rs, sspdata, str_years, tojson, out_file,
                   rd_stdout>>

\* lines 44-47: one iteration of the loop over data[11]
YearLabelStep ==
    /\ DensFrame
    /\ rd_pc = "years"
    /\ rd_i <= Len(year_rs)
    /\ str_years' = Append(str_years, PeriodLabel(year_rs[rd_i]))
    /\ rd_i' = rd_i + 1
    /\ UNCHANGED <<rd_pc, ssp, year_rs, alt_rs, sspdata, str_alts, tojson,
                   out_file, rd_stdout>>

\* line 50, once the loop of lines 44-47 has ended
FromKeys ==
    /\ DensFrame
    /\ rd_pc = "years"
    /\ rd_i > Len(year_rs)
    /\ tojson' = FromKeysDict(str_years)
    /\ rd_i' = 1
    /\ rd_pc' = "fill"
    /\ UNCHANGED <<ssp, year_rs, alt_rs, sspdata, str_alts, str_years, out_file,
                   rd_stdout>>

\* lines 52-53: one iteration of the loop over str_years
FillStep ==
    /\ DensFrame
    /\ rd_pc = "fill"
    /\ rd_i <= Len(str_years)
    /\ tojson' = DictSet(tojson, str_years[rd_i],
                         ZipDict(str_alts, RowOf(sspdata, rd_i, Len(alt_rs)),
                                 Len(str_alts)))
    /\ rd_i' = rd_i + 1
    /\ UNCHANGED <<rd_pc, ssp, year_rs, alt_rs, sspdata, str_alts, str_years,
                   out_file, rd_stdout>>

\* lines 55-56 and the return of line 80 (plot is False)
DumpFile ==
    /\ DensFrame
    /\ rd_pc = "fill"
    /\ rd_i > Len(str_years)
    /\ out_file' = tojson
    /\ rd_pc' = "done"
    /\ UNCHANGED <<ssp, year_rs, alt_rs, sspdata, str_alts, str_years, rd_i,
                   tojson, rd_stdout>>

DensStep ==
    \/ SelectPathway
    \/ InvalidPathway
    \/ AltLabels
    \/ YearLabelStep
    \/ FromKeys
    \/ FillStep
    \/ DumpFile

(***************************************************************************)
(* report_plots.py: extract_species_data and plot_species_heatmap          *)
(* A name or a selector is a sequence of characters. The run artifact is   *)
(* one the simulator wrote: the names are distinct and output.y has        *)
(* n_shells rows per species and one column per timestep.                  *)
(***************************************************************************)
MaxSpecies == 2

MaxShells == 3

MaxSteps == 2

\* the first cell value of an output matrix
SeedInputs == {0, 5}

NameInputs ==
    { <<"A", "c", "t", "i", "v", "e", "_", "s", "a", "t">>,
      <<"N", "_", "5", "0", "0", "_", "1", "c", "m">>,
      <<"S">>,
      <<"S", "u">>,
      <<"B">>,
      <<"s", "1">>,
      <<"n", "_", "1">>,
      <<"b">> }

SelDebris == <<"d", "e", "b", "r", "i", "s">>

SelS == <<"S">>

SelB == <<"B">>

SelectorInputs ==
    { SelDebris, SelS, SelB, <<"N">>, <<"N", "_">>, <<"S", "u">>,
      <<"A", "c", "t", "i", "v", "e">>, <<"s">>, <<>> }

\* the sequences over S of length 0..n without a repeated element
Distinct(S, n) ==
    UNION {{s \in [1..k -> S] : \A a, b \in 1..k : a # b => s[a] # s[b]}
           : k \in 0..n}

\* the flattened output of a run: cell values counted up row by row from seed
OutputY(rows, cols, seed) ==
    [r \in 1..rows |-> [c \in 1..cols |-> seed + (r - 1) * cols + (c - 1)]]

\* str.startswith
StartsWith(s, p) == Len(p) <= Len(s) /\ SubSeq(s, 1, Len(p)) = p

\* line 59: the patterns of a selector other than 'debris'
Patterns(pre) ==
    IF pre \in {SelS, SelB} THEN {pre \o <<"_">>, pre} ELSE {pre}

\* Matches testing whether the pattern occurs anywhere in the name
MatchesAnywhere(name, pre) ==
    LET Occurs(pat) ==
            \E k \in 0..Len(name) :
                k + Len(pat) <= Len(name)
                /\ SubSeq(name, k + 1, k + Len(pat)) = pat
    IN IF pre = SelDebris THEN Occurs(<<"N">>)
       ELSE \E pat \in Patterns(pre) : Occurs(pat)

\* Matches with 'S' and 'B' demanding the underscore (patterns [prefix_])
MatchesUnderscore(name, pre) ==
    IF pre = SelDebris
    THEN StartsWith(name, <<"N">>)
    ELSE IF pre \in {SelS, SelB} THEN StartsWith(name, pre \o <<"_">>)
    ELSE StartsWith(name, pre)

\* lines 53-61: the condition of the two list comprehensions
Matches(name, pre) ==
    IF pre = SelDebris
    THEN \/ StartsWith(name, <<"N">>)
         \/ StartsWith(name, <<"N", "_">>)
         \/ name = <<"N">>
    ELSE \E pat \in Patterns(pre) : StartsWith(name, pat)

\* lines 54 and 60: [i for i, name in enumerate(names) if ...], first n names
RECURSIVE MatchingIndices(_, _, _)
MatchingIndices(names, pre, n) ==
    IF n = 0 THEN <<>>
    ELSE IF Matches(names[n], pre)
         THEN Append(MatchingIndices(names, pre, n - 1), n - 1)
         ELSE MatchingIndices(names, pre, n - 1)

\* y[start:end, :]: rows start..end-1 counted from 0, cut at the last row
Slice(y, start, end) ==
    LET lo == Min(start, Len(y))
        hi == Min(end, Len(y))
    IN [k \in 1..(IF hi > lo THEN hi - lo ELSE 0) |-> y[lo + k]]

\* SpeciesRows without the stride: start_idx = idx
SpeciesRowsNoStride(y, idx, n) == Slice(y, idx, idx + n)

\* SpeciesRows of the species before: start_idx = (idx - 1) * n_shells
SpeciesRowsBefore(y, idx, n) ==
    IF idx = 0 THEN Slice(y, 0, n) ELSE Slice(y, (idx - 1) * n, idx * n)

\* lines 71-73: the rows of the species at position idx
SpeciesRows(y, idx, n) == Slice(y, idx * n, idx * n + n)

\* lines 70-73: the loop over zip(species_indices, species_names), first k
RECURSIVE BuildData(_, _, _, _, _)
BuildData(idxs, names, y, n, k) ==
    IF k = 0 THEN EmptyDict
    ELSE DictSet(BuildData(idxs, names, y, n, k - 1), names[k],
                 SpeciesRows(y, idxs[k], n))

Zeros(rows, cols) == [r \in 1..rows |-> [c \in 1..cols |-> 0]]

\* AddInto assigning instead of adding: total_objects = species_data_array
AddIntoAssign(total, arr) ==
    [r \in DOMAIN total |-> [c \in DOMAIN total[r] |-> arr[r][c]]]

\* line 210: total_objects += species_data_array
AddInto(total, arr) ==
    [r \in DOMAIN total |-> [c \in DOMAIN total[r] |-> total[r][c] + arr[r][c]]]

\* lines 206-210: the loop over species_data.values() (insertion order)
RECURSIVE SumValues(_, _, _, _)
SumValues(data, order, zero, k) ==
    IF k = 0 THEN zero
    ELSE AddInto(SumValues(data, order, zero, k - 1), data[order[k]])

ExtInit ==
    /\ ex_pc = "loaded"
    /\ species_names \in Distinct(NameInputs, MaxSpecies)
    /\ n_shells \in 1..MaxShells
    /\ \E steps \in 1..MaxSteps, seed \in SeedInputs :
          /\ out_t = [c \in 1..steps |-> c - 1]
          /\ out_y = OutputY(Len(species_names) * n_shells, steps, seed)
    /\ prefix = <<>>
    /\ species_indices = <<>>
    /\ sel_names = <<>>
    /\ species_data = EmptyDict
    /\ total_objects = <<>>

\* before any artifact is loaded
ExtIdle ==
    /\ ex_pc = "idle"
    /\ species_names = <<>>
    /\ n_shells = 1
    /\ out_t = <<>>
    /\ out_y = <<>>
    /\ prefix = <<>>
    /\ species_indices = <<>>
    /\ sel_names = <<>>
    /\ species_data = EmptyDict
    /\ total_objects = <<>>

ExtFrame == UNCHANGED <<sepVars, densVars, gridVars>>

\* lines 47-75, called from main (lines 317-319) on the loaded artifact, or
\* again once the last result was consumed
ExtractSpeciesData ==
    /\ ExtFrame
    /\ ex_pc \in {"loaded", "plotted"}
    /\ \E pre \in SelectorInputs :
          LET idxs == MatchingIndices(species_names, pre, Len(species_names))
              names == [k \in 1..Len(idxs) |-> species_names[idxs[k] + 1]]
          IN /\ prefix' = pre
             /\ species_indices' = idxs
             /\ sel_names' = names
             /\ species_data' = BuildData(idxs, names, out_y, n_shells,
                                          Len(idxs))
    /\ total_objects' = <<>>
    /\ ex_pc' = "extracted"
    /\ UNCHANGED <<species_names, n_shells, out_t, out_y>>

\* lines 201-210, called from main (lines 325-327) with the extracted data
PlotSpeciesHeatmap ==
    /\ ExtFrame
    /\ ex_pc = "extracted"
    /\ total_objects' = SumValues(species_data, sel_names,
                                  Zeros(n_shells, Len(out_t)), Len(sel_names))
    /\ ex_pc' = "plotted"
    /\ UNCHANGED <<species_names, n_shells, out_t, out_y, prefix,
                   species_indices, sel_names, species_data>>

ExtStep ==
    \/ ExtractSpeciesData
    \/ PlotSpeciesHeatmap

(***************************************************************************)
(* report_plots.py: calculate_time_dependent_density                       *)
(* A grid cell is held as what was stored in it: <<"zero", 0, 0>> for the  *)
(* 0.0 of np.zeros, <<"exp", 0, alt>> for np.exp(-alt / 100), and          *)
(* <<name, i, alt>> for what the model called name returned for timestep i *)
(* (from 1) at altitude alt.                                               *)
(***************************************************************************)
MaxGridShells == 2

MaxGridSteps == 3

GridAltInputs == {300, 500, 700}

StaticName == "static_exp_dens_func"

ModelNames == {StaticName, "JB2008_dens_func"}

ZeroCell == <<"zero", 0, 0>>

\* np.exp(-altitudes / 100), one element
FallbackCell(alt) == <<"exp", 0, alt>>

\* scenario_props.density_model(t, altitudes, ...), one element
ModelCell(name, i, alt) == <<name, i, alt>>

\* density_values[:, i] = column
SetColumn(grid, i, column) ==
    [a \in DOMAIN grid |-> [grid[a] EXCEPT ![i] = column[a]]]

FallbackColumn(alts) == [a \in DOMAIN alts |-> FallbackCell(alts[a])]

ModelColumn(name, i, alts) == [a \in DOMAIN alts |-> ModelCell(name, i, alts[a])]

\* FillFallback storing the profile in the last column only
FillFallbackLast(grid, alts, n) == SetColumn(grid, n, FallbackColumn(alts))

\* lines 111-112 and 116-117: the loop storing the profile in columns 1..n
RECURSIVE FillFallback(_, _, _)
FillFallback(grid, alts, n) ==
    IF n = 0 THEN grid
    ELSE SetColumn(FillFallback(grid, alts, n - 1), n, FallbackColumn(alts))

MsgStatic == "Using Static Density Model"

MsgJB2008 == "Using JB2008 Time-Dependent Density Model"

MsgError == "Error calculating time-dependent density"

MsgFallback == "Falling back to simplified density calculation"

GridInit ==
    /\ gr_pc = "start"
    /\ has_density_model \in BOOLEAN
    /\ model_name \in IF has_density_model THEN ModelNames ELSE {"none"}
    /\ has_density_data \in BOOLEAN
    /\ R0_km \in Increasing(GridAltInputs, MaxGridShells)
    /\ \E n \in 1..MaxGridSteps : timestamps = [i \in 1..n |-> i - 1]
    /\ raise_at \in IF has_density_model THEN 0..Len(timestamps) ELSE {0}
    /\ density_values = <<>>
    /\ gr_i = 1
    /\ gr_log = <<>>

\* before any scenario is loaded
GridIdle ==
    /\ gr_pc = "idle"
    /\ has_density_model = FALSE
    /\ model_name = "none"
    /\ has_density_data = FALSE
    /\ R0_km = <<>>
    /\ timestamps = <<>>
    /\ raise_at = 0
    /\ density_values = <<>>
    /\ gr_i = 1
    /\ gr_log = <<>>

GridFrame == UNCHANGED <<sepVars, densVars, extVars>>

GridInputs == <<has_density_model, model_name, has_density_data, raise_at,
                R0_km, timestamps>>

\* lines 83-87, then the branch taken at lines 90-93: the static model
StartStatic ==
    /\ GridFrame
    /\ gr_pc = "start"
    /\ has_density_model /\ model_name = StaticName
    /\ density_values' = [a \in DOMAIN R0_km |->
                            [i \in DOMAIN timestamps |-> ZeroCell]]
    /\ gr_log' = Append(gr_log, MsgStatic)
    /\ gr_i' = 1
    /\ gr_pc' = "static_loop"
    /\ UNCHANGED GridInputs

\* lines 83-87, then lines 97-99: the time-dependent model with its table
StartTimeDependent ==
    /\ GridFrame
    /\ gr_pc = "start"
    /\ has_density_model /\ model_name # StaticName /\ has_density_data
    /\ density_values' = [a \in DOMAIN R0_km |->
                            [i \in DOMAIN timestamps |-> ZeroCell]]
    /\ gr_log' = Append(gr_log, MsgJB2008)
    /\ gr_i' = 1
    /\ gr_pc' = "td_loop"
    /\ UNCHANGED GridInputs

\* lines 83-87, then lines 90, 91 and 97 all false: no branch has a body
StartNoBranch ==
    /\ GridFrame
    /\ gr_pc = "start"
    /\ has_density_model /\ model_name # StaticName /\ ~has_density_data
    /\ density_values' = [a \in DOMAIN R0_km |->
                            [i \in DOMAIN timestamps |-> ZeroCell]]
    /\ gr_pc' = "return"
    /\ UNCHANGED <<GridInputs, gr_i, gr_log>>

\* lines 83-87, then lines 113-115: no density_model attribute
StartFallback ==
    /\ GridFrame
    /\ gr_pc = "start"
    /\ ~has_density_model
    /\ density_values' = [a \in DOMAIN R0_km |->
                            [i \in DOMAIN timestamps |-> ZeroCell]]
    /\ gr_log' = Append(gr_log, MsgFallback)
    /\ gr_i' = 1
    /\ gr_pc' = "fb_loop"
    /\ UNCHANGED GridInputs

\* lines 94-95: one iteration, the model returning
StaticStep ==
    /\ GridFrame
    /\ gr_pc = "static_loop"
    /\ gr_i <= Len(timestamps)
    /\ raise_at # gr_i
    /\ density_values' = SetColumn(density_values, gr_i,
                                   ModelColumn(model_name, gr_i, R0_km))
    /\ gr_i' = gr_i + 1
    /\ UNCHANGED <<GridInputs, gr_pc, gr_log>>

\* line 95: the model raising; no handler encloses the call
StaticRaise ==
    /\ GridFrame
    /\ gr_pc = "static_loop"
    /\ gr_i <= Len(timestamps)
    /\ raise_at = gr_i
    /\ gr_pc' = "raised"
    /\ UNCHANGED <<GridInputs, density_values, gr_i, gr_log>>

\* lines 100-107: one iteration, the model returning
TimeDependentStep ==
    /\ GridFrame
    /\ gr_pc = "td_loop"
    /\ gr_i <= Len(timestamps)
    /\ raise_at # gr_i
    /\ density_values' = SetColumn(density_values, gr_i,
                                   ModelColumn(model_name, gr_i, R0_km))
    /\ gr_i' = gr_i + 1
    /\ UNCHANGED <<GridInputs, gr_pc, gr_log>>

\* lines 101-112: the model raising and the handler of lines 108-112
TimeDependentRaise ==
    /\ GridFrame
    /\ gr_pc = "td_loop"
    /\ gr_i <= Len(timestamps)
    /\ raise_at = gr_i
    /\ gr_log' = Append(gr_log, MsgError)
    /\ density_values' = FillFallback(density_values, R0_km, Len(timestamps))
    /\ gr_pc' = "return"
    /\ UNCHANGED <<GridInputs, gr_i>>

\* lines 116-117: one iteration
FallbackStep ==
    /\ GridFrame
    /\ gr_pc = "fb_loop"
    /\ gr_i <= Len(timestamps)
    /\ density_values' = SetColumn(density_values, gr_i, FallbackColumn(R0_km))
    /\ gr_i' = gr_i + 1
    /\ UNCHANGED <<GridInputs, gr_pc, gr_log>>

\* a loop of lines 94, 100 or 116 running out of timestamps
LoopEnd ==
    /\ GridFrame
    /\ gr_pc \in {"static_loop", "td_loop", "fb_loop"}
    /\ gr_i > Len(timestamps)
    /\ gr_pc' = "return"
    /\ UNCHANGED <<GridInputs, density_values, gr_i, gr_log>>

\* lines 119-122
GridReturn ==
    /\ GridFrame
    /\ gr_pc = "return"
    /\ gr_pc' = "returned"
    /\ UNCHANGED <<GridInputs, density_values, gr_i, gr_log>>

GridStep ==
    \/ StartStatic
    \/ StartTimeDependent
    \/ StartNoBranch
    \/ StartFallback
    \/ StaticStep
    \/ StaticRaise
    \/ TimeDependentStep
    \/ TimeDependentRaise
    \/ FallbackStep
    \/ LoopEnd
    \/ GridReturn

(***************************************************************************)
(* Specifications: one program each                                        *)
(***************************************************************************)
InitSEP == SepInit /\ DensIdle /\ ExtIdle /\ GridIdle

SpecSEP == InitSEP /\ [][SepStep]_vars

InitDensity == DensInit /\ SepIdle /\ ExtIdle /\ GridIdle

SpecDensity == InitDensity /\ [][DensStep]_vars

InitExtract == ExtInit /\ SepIdle /\ DensIdle /\ GridIdle

SpecExtract == InitExtract /\ [][ExtStep]_vars

InitGrid == GridInit /\ SepIdle /\ DensIdle /\ ExtIdle

SpecGrid == InitGrid /\ [][GridStep]_vars

(***************************************************************************)
(* Claims about SEP.py                                                     *)
(***************************************************************************)
\* C1: variant independence. Once the module body has run, every field that
\* lines 386-391 override through sep5h_species still has, on the species of
\* the same name in the base mapping sep5_species, the value the constructor
\* gave it: base commercial_constellation_sats.pmd_success_rate is 0.98 and
\* base rocket_bodies_commercial.explosion_probability is 0.015.
C1_BaseKeepsOriginal ==
    sep_pc = "done" =>
        /\ heap[sep5_species["commercial_constellation_sats"]].pmd_success_rate
              = 980
        /\ heap[sep5_species["rocket_bodies_commercial"]].explosion_probability
              = 15
        /\ \A k \in 1..Len(Overrides) :
              GetField(heap, sep5_species[Overrides[k][1]], Overrides[k][2])
                = GetField(InitialHeap, SpeciesLiteral[Overrides[k][1]],
                           Overrides[k][2])

(***************************************************************************)
(* Claims about reformat_density.py                                        *)
(***************************************************************************)
\* the two-character month fields a period label may carry
ValidMonthFields ==
    {PadLeft(IntToStr(m), 2, "0") : m \in 1..12}

\* the fractional part of the year, times 12, rounds to 12
RoundsToTwelve(frac) ==
    2 * 12 * (frac % TicksPerYear) >= 23 * TicksPerYear

\* "YYYY-01" of the year after the one frac lies in
JanuaryAfter(frac) ==
    IntToStr((frac \div TicksPerYear) + 1) \o <<"-", "0", "1">>

\* C2: month rollover. Every period label the build has computed carries a
\* month field in 01..12, and a time ordinate whose fractional part times 12
\* rounds to 12 is labelled January of the following year (2020.999 gives
\* "2021-01").
C2_MonthRollover ==
    \A i \in 1..Len(str_years) :
        /\ SubSeq(str_years[i], 6, 7) \in ValidMonthFields
        /\ RoundsToTwelve(year_rs[i]) => str_years[i] = JanuaryAfter(year_rs[i])

\* the last index of s that holds the same element as index i
LastSame(s, i) ==
    CHOOSE k \in DOMAIN s :
        /\ s[k] = s[i]
        /\ \A m \in DOMAIN s : m > k => s[m] # s[i]

\* C3 as claimed: once the table is built, for every row i and column j of
\* the selected matrix, table[label(time[i])][label(alt[j])] is the source
\* value density[i][j].
C3_RoundTripEveryCell ==
    rd_pc = "done" =>
        \A i \in 1..Len(year_rs), j \in 1..Len(alt_rs) :
            tojson[PeriodLabel(year_rs[i])][AltLabel(alt_rs[j])]
                = Dens(sspdata, i, j)

\* C3 as amended: once the table is built, for every row i and column j,
\* table[label(time[i])][label(alt[j])] is density[i'][j'], where i' is the
\* last row whose time ordinate has the period label of row i and j' the last
\* column whose altitude has the altitude label of column j; so it is
\* density[i][j] whenever no later ordinate shares the label.
C3_RoundTripLastWins ==
    rd_pc = "done" =>
        \A i \in 1..Len(year_rs), j \in 1..Len(alt_rs) :
            /\ tojson[PeriodLabel(year_rs[i])][AltLabel(alt_rs[j])]
                 = Dens(sspdata, LastSame(str_years, i), LastSame(str_alts, j))
            /\ (LastSame(str_years, i) = i /\ LastSame(str_alts, j) = j)
                 => tojson[PeriodLabel(year_rs[i])][AltLabel(alt_rs[j])]
                      = Dens(sspdata, i, j)

\* C3 witness: a table built from two time ordinates of distinct labels and
\* two altitudes, written out
C3_TableBuilt ==
    /\ rd_pc = "done"
    /\ Len(year_rs) = 2
    /\ Len(alt_rs) = 2
    /\ str_years[1] # str_years[2]
    /\ out_file = tojson
    /\ DOMAIN tojson = {str_years[1], str_years[2]}

(***************************************************************************)
(* Claims about extract_species_data and plot_species_heatmap              *)
(***************************************************************************)
Extracted == ex_pc \in {"extracted", "plotted"}

\* the matching rule as the specification words it
FirstCharIs(name, c) == Len(name) >= 1 /\ name[1] = c

RuleMatches(name, pre) ==
    IF pre = SelDebris THEN FirstCharIs(name, "N")
    ELSE IF pre = SelS THEN FirstCharIs(name, "S")
    ELSE IF pre = SelB THEN FirstCharIs(name, "B")
    ELSE Len(pre) <= Len(name) /\ \A k \in 1..Len(pre) : name[k] = pre[k]

\* C4: output extraction slicing. After a call, the returned positions are
\* increasing positions of the species-name list, the returned names are the
\* names at those positions in that order, and under each such name the data
\* holds exactly the rows idx*n_shells .. idx*n_shells+n_shells-1 of output.y,
\* in order, each with all its timestep columns.
C4_SlicePerSpecies ==
    Extracted =>
        /\ \A a, b \in 1..Len(species_indices) :
              a < b => species_indices[a] < species_indices[b]
        /\ Len(sel_names) = Len(species_indices)
        /\ DOMAIN species_data = Range(sel_names)
        /\ \A k \in 1..Len(species_indices) :
              LET idx == species_indices[k]
                  m == species_data[species_names[idx + 1]]
              IN /\ sel_names[k] = species_names[idx + 1]
                 /\ Len(m) = n_shells
                 /\ \A sh \in 1..n_shells :
                       /\ m[sh] = out_y[idx * n_shells + sh]
                       /\ Len(m[sh]) = Len(out_t)

\* C4 witness: a call that matched the second of two species, three shells
C4_SecondSpeciesSliced ==
    /\ Extracted
    /\ Len(species_names) = 2
    /\ n_shells = 3
    /\ species_indices = <<1>>

\* the example of the specification: n_shells = 3, 2 timesteps and the
\* species names ["Active_sat", "N_500_1cm"]
NmActiveSat == <<"A", "c", "t", "i", "v", "e", "_", "s", "a", "t">>

NmN500 == <<"N", "_", "5", "0", "0", "_", "1", "c", "m">>

ExampleRun ==
    /\ Extracted
    /\ species_names = <<NmActiveSat, NmN500>>
    /\ n_shells = 3
    /\ Len(out_t) = 2

\* C5 as claimed: on the example, "debris" returns exactly the N_500_1cm
\* matrix (rows 3..5) and "S" returns the Active_sat matrix (rows 0..2).
C5_ExampleAsClaimed ==
    /\ (ExampleRun /\ prefix = SelDebris) =>
          /\ sel_names = <<NmN500>>
          /\ species_data = (NmN500 :> <<out_y[4], out_y[5], out_y[6]>>)
    /\ (ExampleRun /\ prefix = SelS) =>
          /\ sel_names = <<NmActiveSat>>
          /\ species_data = (NmActiveSat :> <<out_y[1], out_y[2], out_y[3]>>)

\* C5 as amended: on the example, "debris" returns exactly the N_500_1cm
\* matrix (rows 3..5); "S" matches neither name ("Active_sat" does not start
\* with "S") and returns nothing; the Active_sat matrix (rows 0..2) is what a
\* selector that is a prefix of the name, such as "Active", returns.
C5_ExampleAmended ==
    /\ (ExampleRun /\ prefix = SelDebris) =>
          /\ species_indices = <<1>>
          /\ sel_names = <<NmN500>>
          /\ species_data = (NmN500 :> <<out_y[4], out_y[5], out_y[6]>>)
    /\ (ExampleRun /\ prefix = SelS) =>
          /\ species_indices = <<>>
          /\ sel_names = <<>>
          /\ species_data = EmptyDict
    /\ (ExampleRun /\ prefix = <<"A", "c", "t", "i", "v", "e">>) =>
          /\ species_indices = <<0>>
          /\ sel_names = <<NmActiveSat>>
          /\ species_data = (NmActiveSat :> <<out_y[1], out_y[2], out_y[3]>>)

\* C5 witness: the example, extracted with the selector "debris"
C5_ExampleDebris ==
    /\ ExampleRun
    /\ prefix = SelDebris
    /\ DOMAIN species_data = {NmN500}

\* C6: extraction fails closed. When no name of the list matches the
\* selector, the call returns (it does not raise) an empty index list, an
\* empty name list and an empty data mapping.
C6_FailsClosed ==
    (Extracted /\ \A k \in 1..Len(species_names) :
                     ~RuleMatches(species_names[k], prefix))
        => /\ species_indices = <<>>
           /\ sel_names = <<>>
           /\ species_data = EmptyDict

\* C6 witness: a call on a list of two names, neither matching the selector
C6_NothingMatched ==
    /\ Extracted
    /\ Len(species_names) = 2
    /\ \A k \in 1..2 : ~RuleMatches(species_names[k], prefix)

\* C7: the name matching rule. A position is returned exactly when its name
\* matches: for "debris" the first character is 'N'; for "S" and "B" the
\* name starts with that upper-case letter; for any other selector the name
\* starts with the selector. A name starting with lower-case 'n', 's' or 'b'
\* is never returned for debris, S or B.
C7_MatchingRule ==
    Extracted =>
        \A k \in 1..Len(species_names) :
            /\ (k - 1 \in Range(species_indices))
                 <=> RuleMatches(species_names[k], prefix)
            /\ (prefix \in {SelDebris, SelS, SelB}
                /\ species_names[k][1] \in {"n", "s", "b"})
                 => k - 1 \notin Range(species_indices)

\* C7 witness: "S" returned an upper-case name and passed a lower-case one
C7_CaseSensitive ==
    /\ Extracted
    /\ prefix = SelS
    /\ species_names = << <<"s", "1">>, <<"S", "u">> >>
    /\ species_indices = <<1>>

\* the sum over the names in D of the cell (sh, c) of their matrices
RECURSIVE CellSum(_, _, _)
CellSum(D, sh, c) ==
    IF D = {} THEN 0
    ELSE LET n == CHOOSE n \in D : TRUE
         IN species_data[n][sh][c] + CellSum(D \ {n}, sh, c)

\* C8: aggregation. The total is an n_shells x n_timesteps matrix whose
\* every cell is the sum, over the matched species, of that species' cell;
\* with no matched species every cell is 0.
C8_TotalIsCellwiseSum ==
    ex_pc = "plotted" =>
        /\ Len(total_objects) = n_shells
        /\ \A sh \in 1..n_shells :
              /\ Len(total_objects[sh]) = Len(out_t)
              /\ \A c \in 1..Len(out_t) :
                    /\ total_objects[sh][c]
                         = CellSum(DOMAIN species_data, sh, c)
                    /\ species_data = EmptyDict => total_objects[sh][c] = 0

\* C8 witness: a total over two matched species
C8_TwoSpeciesSummed ==
    /\ ex_pc = "plotted"
    /\ Cardinality(DOMAIN species_data) = 2

(***************************************************************************)
(* Claims about calculate_time_dependent_density                           *)
(***************************************************************************)
Logged(msg) == \E k \in 1..Len(gr_log) : gr_log[k] = msg

AllFallback ==
    \A a \in DOMAIN density_values : \A i \in DOMAIN density_values[a] :
        density_values[a][i] = FallbackCell(R0_km[a])

AllZero ==
    \A a \in DOMAIN density_values : \A i \in DOMAIN density_values[a] :
        density_values[a][i] = ZeroCell

\* neither the static density function nor the table density_data is there
NeitherAvailable ==
    /\ ~(has_density_model /\ model_name = StaticName)
    /\ ~has_density_data

\* C9: the fallback is explicit, never silent. When the function returns on
\* a scenario with neither the static density function nor density_data,
\* every column of the grid is the profile exp(-altitude/100) and a message
\* was logged; and a grid is never returned with its initial all-zero
\* contents without a logged fallback.
C9_FallbackNeverSilent ==
    gr_pc = "returned" =>
        /\ NeitherAvailable => (AllFallback /\ Len(gr_log) > 0)
        /\ AllZero => (Logged(MsgFallback) \/ Logged(MsgError))

\* the configured model is called and raises at some timestep
ModelRaises ==
    /\ has_density_model
    /\ model_name = StaticName \/ has_density_data
    /\ raise_at >= 1

\* C10: density evaluation errors never abort the analysis. When the model
\* raises at some timestep, under the static branch or the time-dependent
\* branch, the error does not leave the function, and the function returns
\* with a message logged and the fallback profile in the grid.
C10_ErrorsCaughtLocally ==
    ModelRaises =>
        /\ gr_pc # "raised"
        /\ gr_pc = "returned" => (Logged(MsgError) /\ AllFallback)

(***************************************************************************)
(* Claims about the assembled scenarios of SEP.py                          *)
(***************************************************************************)
Assembled == sep_pc = "done"

\* every species an Interaction of the list names is a key of the mapping
NamesResolve(list, d) ==
    \A k \in DOMAIN list :
        /\ list[k].species_a \in DOMAIN d
        /\ list[k].species_b # "None" => list[k].species_b \in DOMAIN d
        /\ DOMAIN list[k].products \subseteq DOMAIN d

\* every key of the mapping is the name of the Species it maps to
KeysAreNames(d) == \A n \in DOMAIN d : heap[d[n]].name = n

\* C11: referential integrity of the assembled scenarios. In the base list
\* and in the variant list, species_a, species_b when not None, and every key
\* of products is a key of the scenario's species mapping; and every key of
\* a species mapping equals the name field of the Species it maps to.
C11_ReferentialIntegrity ==
    Assembled =>
        /\ NamesResolve(interactions, sep5_species)
        /\ NamesResolve(sep5h_interactions, sep5h_species)
        /\ KeysAreNames(sep5_species)
        /\ KeysAreNames(sep5h_species)

\* both scenarios are assembled: 12 species, 8 and 9 interactions
C11_BothAssembled ==
    /\ Assembled
    /\ Cardinality(DOMAIN sep5_species) = 12
    /\ Cardinality(DOMAIN sep5h_species) = 12
    /\ Len(interactions) = 8
    /\ Len(sep5h_interactions) = 9
    /\ \E k \in DOMAIN sep5h_interactions :
          "inactive_commercial_sats" \in DOMAIN sep5h_interactions[k].products

\* the probe holds the value of a species property function
IsPropertyProbe == Len(probe) = 5

\* C12: the property functions are total. For every Species of a scenario
\* and every sampled altitude, from below the lowest threshold to above the
\* highest and on each threshold, lifetime_fn, mass_fn, area_fn and
\* initial_number_fn each return a number; and whatever a consumer got from
\* one of them is a number.
C12_PropertyFnsTotal ==
    Assembled =>
        /\ \A s \in Scenarios : \A n \in DOMAIN ScenarioSpecies(s) :
              \A alt \in AltSamples :
                 LET o == ScenarioSpecies(s)[n]
                 IN /\ LifetimeFn(o, alt) \in Nat
                    /\ \A fn \in PropertyFns : PropertyFn(fn, o, alt) \in Nat
        /\ IsPropertyProbe => probe[5] \in Nat

\* initial_number_fn was evaluated above the highest threshold of its cascade
C12_AboveEveryThreshold ==
    /\ IsPropertyProbe
    /\ probe[2] = "large_debris"
    /\ probe[3] = "initial_number_fn"
    /\ probe[4] = 2000
    /\ probe[5] = 0

\* the collision of two commercial constellation satellites
IsConstellationCollision(x) ==
    /\ x.species_a = "commercial_constellation_sats"
    /\ x.species_b = "commercial_constellation_sats"
    /\ x.interaction_type = "collision"

IsProductProbe == Len(probe) = 6

\* C13: the product-count threshold is strict. For the collision of two
\* constellation satellites, products["large_debris"](alt) is 100 for every
\* alt < 600 and 150 for every alt >= 600, 600 included; and every product
\* count of every Interaction is a non-negative integer at every altitude.
C13_ProductThresholdStrict ==
    Assembled =>
        /\ \A s \in Scenarios : \A k \in DOMAIN ScenarioInteractions(s) :
              LET x == ScenarioInteractions(s)[k]
              IN \A alt \in AltSamples :
                    /\ IsConstellationCollision(x) =>
                          ProductFn(x.products["large_debris"], alt)
                             = IF alt < 600 THEN 100 ELSE 150
                    /\ \A key \in DOMAIN x.products :
                          ProductFn(x.products[key], alt) \in Nat
        /\ IsProductProbe =>
              /\ probe[6] \in Nat
              /\ ( /\ IsConstellationCollision(
                         ScenarioInteractions(probe[2])[probe[3]])
                   /\ probe[4] = "large_debris" )
                    => probe[6] = IF probe[5] < 600 THEN 100 ELSE 150

\* the large_debris count of the constellation collision was read at 600 km
C13_ExactlyAtThreshold ==
    /\ IsProductProbe
    /\ IsConstellationCollision(ScenarioInteractions(probe[2])[probe[3]])
    /\ probe[4] = "large_debris"
    /\ probe[5] = 600
    /\ probe[6] = 150

IsProbabilityProbe == Len(probe) = 7

\* the constant a removal rule of a list is configured with: the rules of
\* the base list have 10/2000, the rule appended to the variant has 15/2000
ConfiguredRemoval(s, k) ==
    IF s = "sep5h" /\ k > Len(interactions) THEN Rat(15, 2000)
    ELSE Rat(10, 2000)

\* the step function of a removal rule
RemovalStep(s, k, t) ==
    IF t < 5 * StepsPerYear THEN Rat(0, 1) ELSE ConfiguredRemoval(s, k)

\* C14: the removal rate is a step function. For every removal Interaction
\* and every altitude, probability_fn(t, alt) is 0 for every t < 5 and the
\* configured constant (10/2000 for the base rule, 15/2000 for the appended
\* rule) for every t >= 5, t = 5 included.
C14_RemovalStepFunction ==
    Assembled =>
        /\ \A s \in Scenarios : \A k \in DOMAIN ScenarioInteractions(s) :
              LET x == ScenarioInteractions(s)[k]
              IN x.interaction_type = "removal" =>
                    \A t \in TimeSamples : \A alt \in AltSamples :
                       RatEq(ProbabilityFn(x.probability_fn, t, alt),
                             RemovalStep(s, k, t))
        /\ (IsProbabilityProbe /\ probe[4] = "removal") =>
              RatEq(probe[7], RemovalStep(probe[2], probe[3], probe[5]))

\* the appended removal rule was evaluated at exactly 5 years
C14_AtFiveYears ==
    /\ IsProbabilityProbe
    /\ probe[2] = "sep5h"
    /\ probe[3] = 9
    /\ probe[4] = "removal"
    /\ probe[5] = 5 * StepsPerYear
    /\ RatEq(probe[7], Rat(15, 2000))

\* the probability_fn of the base records, in the order of lines 269-363
BaseOrder == <<276, 289, 302, 316, 329, 340, 349, 360>>

\* the probability_fn of each record of a list, in order
FnOrder(list) == [k \in DOMAIN list |-> list[k].probability_fn]

\* C15: appending to the variant list leaves the base list unchanged. Once
\* the variant list is derived and the extra removal Interaction appended,
\* the base list still has its 8 records in their order, and the variant
\* list is the base records in the same order followed by the appended one.
C15_AppendLeavesBase ==
    /\ sep_pc \in {"interactions_copied", "done"} =>
          /\ Len(interactions) = 8
          /\ FnOrder(interactions) = BaseOrder
          /\ interactions = InteractionsLiteral
    /\ Assembled =>
          /\ Len(sep5h_interactions) = 9
          /\ SubSeq(sep5h_interactions, 1, 8) = interactions
          /\ sep5h_interactions[9] = VariantRemoval
          /\ FnOrder(sep5h_interactions) = BaseOrder \o <<400>>

\* the appended record is in the variant list
C15_Appended ==
    /\ Assembled
    /\ Len(sep5h_interactions) = Len(interactions) + 1
    /\ sep5h_interactions[Len(sep5h_interactions)].probability_fn = 400

\* an end-of-life rule of the commercial constellation satellites
IsEol(x, ty) ==
    /\ x.species_a = "commercial_constellation_sats"
    /\ x.interaction_type = ty

\* (1 / lifetime_fn(alt)) x share, for the species record of scenario s
EolRate(s, alt, failure) ==
    LET o == ScenarioSpecies(s)["commercial_constellation_sats"]
        pmd == heap[o].pmd_success_rate
    IN RatMul(Rat(1, LifetimeFn(o, alt)),
              Rat(IF failure THEN 1000 - pmd ELSE pmd, 1000))

\* C16: end-of-life rates follow the species' own fields. In each scenario,
\* at every time and altitude, the eol_success rate of the commercial
\* constellation satellites is (1 / lifetime_fn(alt)) x pmd_success_rate of
\* the scenario's species record, and the eol_failure rate is
\* (1 / lifetime_fn(alt)) x (1 - pmd_success_rate).
C16_EolFollowsSpecies ==
    Assembled =>
        \A s \in Scenarios : \A k \in DOMAIN ScenarioInteractions(s) :
           LET x == ScenarioInteractions(s)[k]
           IN \A t \in TimeSamples : \A alt \in AltSamples :
                 /\ IsEol(x, "eol_success") =>
                       RatEq(ProbabilityFn(x.probability_fn, t, alt),
                             EolRate(s, alt, FALSE))
                 /\ IsEol(x, "eol_failure") =>
                       RatEq(ProbabilityFn(x.probability_fn, t, alt),
                             EolRate(s, alt, TRUE))

\* the sum of the rates of the removal rules of records 1..n of a list that
\* act on species a
RECURSIVE RemovalSum(_, _, _, _, _)
RemovalSum(list, n, a, t, alt) ==
    IF n = 0 THEN Rat(0, 1)
    ELSE IF list[n].interaction_type = "removal" /\ list[n].species_a = a
         THEN RatAdd(RemovalSum(list, n - 1, a, t, alt),
                     ProbabilityFn(list[n].probability_fn, t, alt))
         ELSE RemovalSum(list, n - 1, a, t, alt)

\* C17: high-sustainability debris removal proceeds at 15 objects per year.
\* In the variant list the removal rules acting on inactive_commercial_sats
\* sum, at every altitude, to 15/2000 for every t >= 5 and to 0 for t < 5.
C17_VariantRemovalRate ==
    Assembled =>
        \A t \in TimeSamples : \A alt \in AltSamples :
           RatEq(RemovalSum(sep5h_interactions, Len(sep5h_interactions),
                            "inactive_commercial_sats", t, alt),
                 IF t >= 5 * StepsPerYear THEN Rat(15, 2000) ELSE Rat(0, 1))

(***************************************************************************)
(* Further claims about reformat_density.main                              *)
(***************************************************************************)
\* the matrix each pathway index stands for: the baseline, then SSP1-2.6,
\* SSP2-4.5, SSP3-7.0, SSP4-6.0 and SSP5-8.5
PathwayMatrix(p) ==
    CASE p = 0 -> 9 [] p = 1 -> 1 [] p = 2 -> 2 [] p = 3 -> 3 [] p = 4 -> 6
      [] p = 5 -> 8

InvalidReported ==
    \E k \in 1..Len(rd_stdout) : rd_stdout[k] = "Invalid SSP. Choose 1-5."

SpacedByMonth ==
    \A a, b \in DOMAIN year_rs :
        a < b => 12 * (year_rs[b] - year_rs[a]) >= TicksPerYear

\* the fractional part of the year, times 12, is k + 1/2 for a whole k
Halfway(frac) == (2 * 12 * (frac % TicksPerYear)) % (2 * TicksPerYear) = TicksPerYear

\* C19: one table period per time ordinate. When the time ordinates are
\* strictly increasing and at least one twelfth of a year apart, ordinates
\* exactly halfway between two month divisions included, the period labels
\* are pairwise distinct, and the table written has as many period keys as
\* there are time ordinates: no row was overwritten by another.
C19_OnePeriodPerOrdinate ==
    SpacedByMonth =>
        /\ \A a, b \in DOMAIN str_years :
              a # b => str_years[a] # str_years[b]
        /\ rd_pc = "done" =>
              /\ Cardinality(DOMAIN tojson) = Len(year_rs)
              /\ Cardinality(DOMAIN out_file) = Len(year_rs)

\* a table was written from a halfway ordinate and the next ordinate a
\* twelfth of a year, to the tick, after it
C19_HalfwayThenNext ==
    /\ rd_pc = "done"
    /\ Len(year_rs) = 2
    /\ Halfway(year_rs[1])
    /\ SpacedByMonth
    /\ 12 * (year_rs[2] - year_rs[1] - 1) < TicksPerYear
    /\ Cardinality(DOMAIN out_file) = 2

(***************************************************************************)
(* Further claims about calculate_time_dependent_density                   *)
(***************************************************************************)
AllModel ==
    \A a \in DOMAIN density_values : \A i \in DOMAIN density_values[a] :
        density_values[a][i] = ModelCell(model_name, i, R0_km[a])

\* the branch of lines 97-112 is the one taken
TimeDependentBranch ==
    has_density_model /\ model_name # StaticName /\ has_density_data

\* C20: no mixed density grid after a mid-run error. In the time-dependent
\* branch, if the model raises at some timestep, every column of the grid
\* the function returns, the columns computed before the error included,
\* holds the fallback profile; and no grid is returned that mixes columns
\* of the model with fallback or zero columns.
C20_NoMixedGrid ==
    gr_pc \in {"return", "returned"} =>
        /\ (TimeDependentBranch /\ raise_at >= 1) => AllFallback
        /\ AllModel \/ AllFallback \/ AllZero

\* the model raised after at least one column was computed, and the function
\* has returned
C20_RaisedMidRun ==
    /\ gr_pc = "returned"
    /\ TimeDependentBranch
    /\ raise_at >= 2
    /\ Len(timestamps) > raise_at
    /\ Logged(MsgError)
    /\ AllFallback

====
